---- MODULE Spec2Model ----
(***************************************************************************)
(* Model of the filter-and-bound subsystem of playwright-mcp:              *)
(*   - stringArrayApplyLimits / stringArrayTrimToLength (tools/utils.ts)   *)
(*   - createConsoleFilter / createNetworkFilter and the two tool handlers *)
(*   - waitForCompletion (tools/utils.ts)                                  *)
(* Three specifications share the module: SpecTrim, SpecFilter, SpecWait   *)
(* (FairSpecWait adds the fairness of the event loop).                     *)
(***************************************************************************)
EXTENDS Integers, Sequences, FiniteSets, TLC

VARIABLES
  \* ---- stringArrayApplyLimits, called on its own
  strings,          \* the input lines
  maxTotalLength,   \* options.maxTotalLength
  countFirst,       \* options.countFirst (0 stands for null / undefined)
  countLast,        \* options.countLast  (0 stands for null / undefined)
  tpc,              \* "idle" | "input" | "done"
  result,           \* the returned array
  \* ---- the console / network tool handlers
  tool,             \* "none" | "console" | "network"
  records,          \* tab.consoleMessages() / [...tab.requests().entries()]
  include,          \* params.include (Absent or a sequence of clauses)
  exclude,          \* params.exclude (Absent or a sequence of clauses)
  first,            \* params.first (0 stands for undefined)
  last,             \* params.last  (0 stands for undefined)
  fpc,              \* "idle" | "input" | "done" | "threw"
  filtered,         \* the entries left after both filter stages
  output,           \* the lines given to response.addResult, in order
  \* ---- waitForCompletion
  pc,               \* "idle" | "action" | "awaitBarrier" | "delay" | "returned" | "threw"
  requests,         \* the Set<Request> of the closure
  frameNavigated,   \* the closure's flag
  barrierResolved,  \* waitCallback() has been called: waitBarrier is resolved
  listeners,        \* the page events the closure is subscribed to
  timerPending,     \* the 10 s timeout is armed
  timedOut,         \* onTimeout has run
  loadPending,      \* tab.waitForLoadState('load') has been called and not settled
  loadArrived,      \* that promise has settled
  page,             \* the page's requests: id -> "idle" | "inflight" | "finished" | "failed"
  navCount          \* framenavigated events emitted so far

trimVars == <<strings, maxTotalLength, countFirst, countLast, tpc, result>>
filterVars == <<tool, records, include, exclude, first, last, fpc, filtered, output>>
waitVars == <<pc, requests, frameNavigated, barrierResolved, listeners, timerPending,
              timedOut, loadPending, loadArrived, page, navCount>>
vars == <<trimVars, filterVars, waitVars>>

(***************************************************************************)
(* Bounds of the model.                                                    *)
(***************************************************************************)
MaxLines == 3
MaxLineLen == 3
MaxBudget == 4
MaxCount == 4
MaxRequests == 2
MaxNavigations == 2
MaxRecords == 2
MaxClauses == 2

(***************************************************************************)
(* Lines.  A line of the input is known by its source position and its     *)
(* length; a marker line carries its kind and its count.                   *)
(***************************************************************************)
Line(p, l) == [kind |-> "line", pos |-> p, len |-> l, count |-> 0]
Marker(k, n) == [kind |-> k, pos |-> 0, len |-> 0, count |-> n]

Min(a, b) == IF a < b THEN a ELSE b
Max(a, b) == IF a > b THEN a ELSE b

\* Array.prototype.slice(start, end) with JavaScript's clamping; indices are 0-based.
JsSlice(s, start, end) ==
  LET n == Len(s)
      from == IF start < 0 THEN Max(n + start, 0) ELSE Min(start, n)
      to == IF end < 0 THEN Max(n + end, 0) ELSE Min(end, n)
  IN  IF from >= to THEN <<>> ELSE SubSeq(s, from + 1, to)

RECURSIVE stringArrayTotalLength(_)
stringArrayTotalLength(s) ==
  IF s = <<>> THEN 0 ELSE Head(s).len + stringArrayTotalLength(Tail(s))

\* the preferEnd loop: i runs from strings.length - 1 down to 0
RECURSIVE TrimLoopEnd(_, _, _, _, _)
TrimLoopEnd(s, maxLength, i, length, index) ==
  IF i < 0 THEN index
  ELSE LET l == length + s[i + 1].len
       IN  IF l > maxLength THEN index ELSE TrimLoopEnd(s, maxLength, i - 1, l, i)

RECURSIVE TrimLoopStart_OffByOne(_, _, _, _, _)
TrimLoopStart_OffByOne(s, maxLength, i, length, index) ==
  IF i >= Len(s) THEN index
  ELSE LET l == length + s[i + 1].len
       IN  IF l > maxLength THEN index
           ELSE TrimLoopStart_OffByOne(s, maxLength, i + 1, l, i)

\* the other loop: i runs from 0 up to strings.length - 1
RECURSIVE TrimLoopStart(_, _, _, _, _)
TrimLoopStart(s, maxLength, i, length, index) ==
  IF i >= Len(s) THEN index
  ELSE LET l == length + s[i + 1].len
       IN  IF l > maxLength THEN index ELSE TrimLoopStart(s, maxLength, i + 1, l, i + 1)

stringArrayTrimToLength(s, maxLength, preferEnd) ==
  IF preferEnd
    THEN JsSlice(s, TrimLoopEnd(s, maxLength, Len(s) - 1, 0, 0), Len(s))
    ELSE JsSlice(s, 0, TrimLoopStart(s, maxLength, 0, 0, 0))

\* Math.floor(maxTotalLength * (lengthFirst / totalLength))
ProportionalShare(budget, lengthFirst, totalLength) ==
  (budget * lengthFirst) \div totalLength

\* the same without the marker after a trimmed first slice
stringArrayApplyLimits_NoMarker(s, budget, cFirst, cLast) ==
  IF cFirst # 0 /\ cLast # 0 THEN
    LET firstN == JsSlice(s, 0, cFirst)
        lastN == JsSlice(s, -cLast, Len(s))
        lengthFirst == stringArrayTotalLength(firstN)
        lengthLast == stringArrayTotalLength(lastN)
        totalLength == lengthFirst + lengthLast
    IN  IF totalLength > budget THEN
          LET maxLengthFirst == ProportionalShare(budget, lengthFirst, totalLength)
              maxLengthLast == budget - maxLengthFirst
              trimmedFirst == stringArrayTrimToLength(firstN, maxLengthFirst, FALSE)
              trimmedLast == stringArrayTrimToLength(lastN, maxLengthLast, TRUE)
              skippedFirst == Len(firstN) - Len(trimmedFirst)
              skippedLast == Len(lastN) - Len(trimmedLast)
              totalSkipped == Len(s) - cFirst - cLast + skippedFirst + skippedLast
          IN  trimmedFirst \o <<Marker("skipped", totalSkipped)>> \o trimmedLast
        ELSE firstN \o lastN
  ELSE IF cFirst # 0 THEN
    LET sliced == JsSlice(s, 0, cFirst)
        trimmed == stringArrayTrimToLength(sliced, budget, FALSE)
        skipped == Len(sliced) - Len(trimmed)
    IN  trimmed
  ELSE IF cLast # 0 THEN
    LET sliced == JsSlice(s, -cLast, Len(s))
        trimmed == stringArrayTrimToLength(sliced, budget, TRUE)
        skipped == Len(sliced) - Len(trimmed)
    IN  IF skipped > 0 THEN <<Marker("trimmed", skipped)>> \o trimmed ELSE trimmed
  ELSE
    LET trimmed == stringArrayTrimToLength(s, budget, TRUE)
        skipped == Len(s) - Len(trimmed)
    IN  IF skipped > 0 THEN <<Marker("trimmed", skipped)>> \o trimmed ELSE trimmed

stringArrayApplyLimits(s, budget, cFirst, cLast) ==
  IF cFirst # 0 /\ cLast # 0 THEN
    LET firstN == JsSlice(s, 0, cFirst)
        lastN == JsSlice(s, -cLast, Len(s))
        lengthFirst == stringArrayTotalLength(firstN)
        lengthLast == stringArrayTotalLength(lastN)
        totalLength == lengthFirst + lengthLast
    IN  IF totalLength > budget THEN
          LET maxLengthFirst == ProportionalShare(budget, lengthFirst, totalLength)
              maxLengthLast == budget - maxLengthFirst
              trimmedFirst == stringArrayTrimToLength(firstN, maxLengthFirst, FALSE)
              trimmedLast == stringArrayTrimToLength(lastN, maxLengthLast, TRUE)
              skippedFirst == Len(firstN) - Len(trimmedFirst)
              skippedLast == Len(lastN) - Len(trimmedLast)
              totalSkipped == Len(s) - cFirst - cLast + skippedFirst + skippedLast
          IN  trimmedFirst \o <<Marker("skipped", totalSkipped)>> \o trimmedLast
        ELSE firstN \o lastN
  ELSE IF cFirst # 0 THEN
    LET sliced == JsSlice(s, 0, cFirst)
        trimmed == stringArrayTrimToLength(sliced, budget, FALSE)
        skipped == Len(sliced) - Len(trimmed)
    IN  IF skipped > 0 THEN Append(trimmed, Marker("trimmed", skipped)) ELSE trimmed
  ELSE IF cLast # 0 THEN
    LET sliced == JsSlice(s, -cLast, Len(s))
        trimmed == stringArrayTrimToLength(sliced, budget, TRUE)
        skipped == Len(sliced) - Len(trimmed)
    IN  IF skipped > 0 THEN <<Marker("trimmed", skipped)>> \o trimmed ELSE trimmed
  ELSE
    LET trimmed == stringArrayTrimToLength(s, budget, TRUE)
        skipped == Len(s) - Len(trimmed)
    IN  IF skipped > 0 THEN <<Marker("trimmed", skipped)>> \o trimmed ELSE trimmed

(***************************************************************************)
(* Idle values of the parts a specification does not use.                  *)
(***************************************************************************)
\* an optional parameter or field: Absent, or Given(v) with Value(Given(v)) = v
Absent == <<>>
Given(v) == <<v>>
Value(o) == o[1]

TrimIdle ==
  /\ strings = <<>> /\ maxTotalLength = 1 /\ countFirst = 0 /\ countLast = 0
  /\ tpc = "idle" /\ result = <<>>

FilterIdle ==
  /\ tool = "none" /\ records = <<>> /\ include = Absent /\ exclude = Absent
  /\ first = 0 /\ last = 0 /\ fpc = "idle" /\ filtered = <<>> /\ output = <<>>

WaitIdle ==
  /\ pc = "idle" /\ requests = {} /\ frameNavigated = FALSE /\ barrierResolved = FALSE
  /\ listeners = {} /\ timerPending = FALSE /\ timedOut = FALSE
  /\ loadPending = FALSE /\ loadArrived = FALSE /\ page = <<>> /\ navCount = 0

(***************************************************************************)
(* SpecTrim: stringArrayApplyLimits applied to every bounded input.        *)
(***************************************************************************)
RECURSIVE SeqsUpTo(_, _)
SeqsUpTo(S, n) ==
  IF n = 0 THEN {<<>>}
  ELSE LET shorter == SeqsUpTo(S, n - 1)
       IN  shorter \cup {Append(s, x) : s \in {t \in shorter : Len(t) = n - 1}, x \in S}

\* the input array: line i of the source has position i (0-based) and a length
LinesOf(lens) == [i \in 1..Len(lens) |-> Line(i - 1, lens[i])]

InitTrim ==
  /\ \E lens \in SeqsUpTo(1..MaxLineLen, MaxLines) : strings = LinesOf(lens)
  /\ maxTotalLength \in 1..MaxBudget
  /\ countFirst \in 0..MaxCount
  /\ countLast \in 0..MaxCount
  /\ tpc = "input"
  /\ result = <<>>
  /\ FilterIdle
  /\ WaitIdle

ApplyLimits ==
  /\ tpc = "input"
  /\ result' = stringArrayApplyLimits(strings, maxTotalLength, countFirst, countLast)
  /\ tpc' = "done"
  /\ UNCHANGED <<strings, maxTotalLength, countFirst, countLast, filterVars, waitVars>>

NextTrim == ApplyLimits

SpecTrim == InitTrim /\ [][NextTrim]_vars

(***************************************************************************)
(* Claims about stringArrayApplyLimits.                                    *)
(***************************************************************************)
RECURSIVE NonMarkerLength(_)
NonMarkerLength(s) ==
  IF s = <<>> THEN 0
  ELSE (IF Head(s).kind = "line" THEN Head(s).len ELSE 0) + NonMarkerLength(Tail(s))

Markers(s) == {i \in 1..Len(s) : s[i].kind # "line"}
KeptPositions(s) == {s[i].pos : i \in {j \in 1..Len(s) : s[j].kind = "line"}}
ExcludedPositions == (0..(Len(strings) - 1)) \ KeptPositions(result)

\* C1: for every input, every positive budget and every combination of
\* countFirst / countLast, the lengths of the non-marker lines returned by
\* stringArrayApplyLimits sum to at most maxTotalLength.
C1_BudgetRespected ==
  tpc = "done" => NonMarkerLength(result) <= maxTotalLength

\* C2: whenever the result holds a marker line, its count is the exact number of
\* input lines (source positions) that do not appear in the result, in all four
\* cases of countFirst / countLast.
C2_MarkerAccuracy ==
  tpc = "done" =>
    \A i \in Markers(result) : result[i].count = Cardinality(ExcludedPositions)

\* the first n and the last n lines of the input, n clamped to its length
FirstLines(n) == [i \in 1..Min(n, Len(strings)) |-> strings[i]]
LastLines(n) ==
  [i \in 1..Min(n, Len(strings)) |-> strings[Len(strings) - Min(n, Len(strings)) + i]]

\* C13: with first = F alone and the first min(F, N) lines within the budget the
\* result is exactly those lines, in order and without a marker; with last = L
\* alone and the last min(L, N) lines within the budget it is exactly those
\* lines; a count above N is clamped.
C13_CountsAloneWithinBudget ==
  tpc = "done" =>
    /\ (countFirst # 0 /\ countLast = 0
         /\ stringArrayTotalLength(FirstLines(countFirst)) <= maxTotalLength)
       => result = FirstLines(countFirst)
    /\ (countLast # 0 /\ countFirst = 0
         /\ stringArrayTotalLength(LastLines(countLast)) <= maxTotalLength)
       => result = LastLines(countLast)

\* first = 4 over three lines that fit: the three lines, no marker
C13_Witness ==
  /\ tpc = "done" /\ countLast = 0 /\ countFirst > Len(strings) /\ Len(strings) = MaxLines
  /\ result = strings

IsPrefix(a, b) == Len(a) <= Len(b) /\ a = SubSeq(b, 1, Len(a))
IsSuffix(a, b) == Len(a) <= Len(b) /\ a = SubSeq(b, Len(b) - Len(a) + 1, Len(b))
SelectedPositions ==
  (0..(Min(countFirst, Len(strings)) - 1))
    \cup (Max(Len(strings) - countLast, 0)..(Len(strings) - 1))
BetweenPositions == {q \in 0..(Len(strings) - 1) : q >= countFirst /\ q < Len(strings) - countLast}

\* C14: with first = F and last = L and the two slices together above the
\* budget, the result is a leading run of the first slice, one marker and a
\* trailing run of the last slice, and the marker counts the positions of the
\* two slices whose line was dropped plus the positions strictly between the
\* slices; the count is never negative, also when the slices overlap or a count
\* is above N.
C14_SkippedCount ==
  (/\ tpc = "done" /\ countFirst # 0 /\ countLast # 0
   /\ stringArrayTotalLength(FirstLines(countFirst))
        + stringArrayTotalLength(LastLines(countLast)) > maxTotalLength)
  => /\ Cardinality(Markers(result)) = 1
     /\ \A m \in Markers(result) :
          /\ IsPrefix(SubSeq(result, 1, m - 1), FirstLines(countFirst))
          /\ IsSuffix(SubSeq(result, m + 1, Len(result)), LastLines(countLast))
          /\ result[m].count >= 0
          /\ result[m].count =
               Cardinality(SelectedPositions \ KeptPositions(result))
                 + Cardinality(BetweenPositions)

(***************************************************************************)
(* The console and network tools.                                          *)
(*                                                                         *)
(* Texts are sequences of characters.  A pattern is a sequence of          *)
(* characters too: new RegExp(pattern, 'iu') throws a SyntaxError for an   *)
(* unterminated group, and a pattern of plain characters tests whether the *)
(* text contains it, ignoring case.                                        *)
(***************************************************************************)
MAX_TOTAL_TEXT_LENGTH == 2000

NoResponse == 0

Lower(c) == IF c = "A" THEN "a" ELSE IF c = "B" THEN "b" ELSE c

RegExpThrows(pattern) == \E i \in 1..Len(pattern) : pattern[i] = "("

RegExpTest(pattern, text) ==
  \E k \in 0..(Len(text) - Len(pattern)) :
    \A j \in 1..Len(pattern) : Lower(pattern[j]) = Lower(text[k + j])

\* `filter.pattern` is truthy: given and not the empty string
HasPattern(filter) == filter.pattern # Absent /\ Value(filter.pattern) # <<>>

\* ---- console
getConsoleMessageType(message) ==
  CASE message.type = "error" -> "error"
    [] message.type = "warning" -> "warning"
    [] message.type \in {"log", "info"} -> "info"
    [] OTHER -> "verbose"

\* the callback given to filters.some: "true", "false" or "throw"
ConsoleClause(filter, message) ==
  IF filter.types # Absent /\ Value(filter.types) # {}
       /\ getConsoleMessageType(message) \notin Value(filter.types) THEN "false"
  ELSE IF HasPattern(filter) THEN
    IF RegExpThrows(Value(filter.pattern)) THEN "throw"
    ELSE IF ~RegExpTest(Value(filter.pattern), message.text) THEN "false"
    ELSE "true"
  ELSE "true"

\* ---- network
\* a URL: its scheme, its hostname ("" when new URL(url) throws), the text the
\* pattern is tested against and its length
CurrentPageHost == "h1"

getNetworkRequestType(url) ==
  IF url.scheme \in {"chrome-extension", "moz-extension"} THEN "extension"
  ELSE IF url.host = "" THEN "3rd-party"
  ELSE IF url.host = CurrentPageHost THEN "sameHost" ELSE "3rd-party"

InRange(status, range) == status >= range[1] /\ status <= range[2]

NetworkClause(filter, entry) ==
  IF filter.statuses # Absent /\ Len(Value(filter.statuses)) > 0
       /\ entry.status # NoResponse
       /\ ~\E i \in 1..Len(Value(filter.statuses)) :
             InRange(entry.status, Value(filter.statuses)[i])
    THEN "false"
  ELSE IF filter.types # Absent /\ Value(filter.types) # {}
       /\ getNetworkRequestType(entry.url) \notin Value(filter.types) THEN "false"
  ELSE IF HasPattern(filter) THEN
    IF RegExpThrows(Value(filter.pattern)) THEN "throw"
    ELSE IF ~RegExpTest(Value(filter.pattern), entry.url.text) THEN "false"
    ELSE "true"
  ELSE "true"

Clause(t, filter, record) ==
  IF t = "console" THEN ConsoleClause(filter, record) ELSE NetworkClause(filter, record)

\* filters.some(...): the clauses in order, up to the first that matches or throws
RECURSIVE Some(_, _, _)
Some(t, filters, record) ==
  IF filters = <<>> THEN "false"
  ELSE LET c == Clause(t, Head(filters), record)
       IN  IF c = "false" THEN Some(t, Tail(filters), record) ELSE c

Not(b) == IF b = "true" THEN "false" ELSE IF b = "false" THEN "true" ELSE b
Bool(b) == IF b THEN "true" ELSE "false"

createNetworkFilter_KeepsMatches(filters, isInclude, entry) ==
  IF Len(filters) = 0 THEN Bool(isInclude) ELSE Some("network", filters, entry)

createConsoleFilter(filters, isInclude, message) ==
  IF Len(filters) = 0 THEN Bool(isInclude)
  ELSE LET matchesAnyFilter == Some("console", filters, message)
       IN  IF isInclude THEN matchesAnyFilter ELSE Not(matchesAnyFilter)

createNetworkFilter(filters, isInclude, entry) ==
  IF Len(filters) = 0 THEN Bool(isInclude)
  ELSE LET matchesAnyFilter == Some("network", filters, entry)
       IN  IF isInclude THEN matchesAnyFilter ELSE Not(matchesAnyFilter)

Predicate(t, filters, isInclude, record) ==
  IF t = "console" THEN createConsoleFilter(filters, isInclude, record)
  ELSE createNetworkFilter(filters, isInclude, record)

\* Array.prototype.filter over the entries (indices into records): the kept
\* entries, or the error of the first predicate that throws
RECURSIVE ArrayFilter(_, _, _, _, _)
ArrayFilter(t, recs, entries, filters, isInclude) ==
  IF entries = <<>> THEN [threw |-> FALSE, kept |-> <<>>]
  ELSE LET p == Predicate(t, filters, isInclude, recs[Head(entries)])
           rest == ArrayFilter(t, recs, Tail(entries), filters, isInclude)
       IN  IF p = "throw" \/ rest.threw THEN [threw |-> TRUE, kept |-> <<>>]
           ELSE [threw |-> FALSE,
                 kept |-> IF p = "true" THEN <<Head(entries)>> \o rest.kept ELSE rest.kept]

\* the two `if (params.include)` / `if (params.exclude)` stages of a handler
FilterStages(t, recs, inc, exc) ==
  LET all == [i \in 1..Len(recs) |-> i]
      afterInclude == IF inc # Absent THEN ArrayFilter(t, recs, all, Value(inc), TRUE)
                      ELSE [threw |-> FALSE, kept |-> all]
  IN  IF afterInclude.threw THEN afterInclude
      ELSE IF exc # Absent THEN ArrayFilter(t, recs, afterInclude.kept, Value(exc), FALSE)
      ELSE afterInclude

\* renderRequest: `[GET] url`, then ` => [status] statusText` with a response
MethodPrefixLength == 6
ResponseSuffixLength == 12
renderRequest(entry) ==
  MethodPrefixLength + entry.url.len
    + (IF entry.status # NoResponse THEN ResponseSuffixLength ELSE 0)

\* the strings given to stringArrayApplyLimits: entry i of the filtered array
Rendered(t, recs, entries) ==
  [i \in 1..Len(entries) |->
     Line(i - 1, IF t = "console" THEN recs[entries[i]].len
                 ELSE renderRequest(recs[entries[i]]))]

NoRequestsLine == [kind |-> "none", pos |-> 0, len |-> 0, count |-> 0]

(***************************************************************************)
(* SpecFilter: one call of a tool on every bounded log and query.          *)
(***************************************************************************)
ShortUrl == [scheme |-> "http", host |-> "h1", text |-> <<"A", "x">>, len |-> 20]
LongUrl == [scheme |-> "http", host |-> "h2", text |-> <<"b", "x">>, len |-> 2100]
NetworkRecords ==
  {[url |-> ShortUrl, status |-> 200],
   [url |-> ShortUrl, status |-> NoResponse],
   [url |-> LongUrl, status |-> 404],
   [url |-> LongUrl, status |-> NoResponse]}
Success == Given(<< <<200, 299>> >>)
NetworkClauses ==
  {[statuses |-> Absent, types |-> Absent, pattern |-> Absent],
   [statuses |-> Success, types |-> Absent, pattern |-> Absent],
   [statuses |-> Absent, types |-> Given({"sameHost"}), pattern |-> Absent],
   [statuses |-> Absent, types |-> Absent, pattern |-> Given(<<"a">>)],
   [statuses |-> Absent, types |-> Absent, pattern |-> Given(<<"(">>)],
   [statuses |-> Success, types |-> Given({"sameHost"}), pattern |-> Given(<<"(">>)]}

ConsoleRecords ==
  {[type |-> "error", text |-> <<"A", "x">>, len |-> 20],
   [type |-> "log", text |-> <<"A", "x">>, len |-> 2100],
   [type |-> "debug", text |-> <<"b", "x">>, len |-> 20]}
ConsoleClauses ==
  {[types |-> Absent, pattern |-> Absent],
   [types |-> Given({"info"}), pattern |-> Absent],
   [types |-> Absent, pattern |-> Given(<<"a">>)],
   [types |-> Absent, pattern |-> Given(<<"(">>)],
   [types |-> Given({"info"}), pattern |-> Given(<<"(">>)]}

RecordsOf(t) == IF t = "console" THEN ConsoleRecords ELSE NetworkRecords
ClausesOf(t) == IF t = "console" THEN ConsoleClauses ELSE NetworkClauses
ClauseCount(list) == IF list = Absent THEN 0 ELSE Len(Value(list))
FilterLists(t, n) == {Absent} \cup {Given(l) : l \in SeqsUpTo(ClausesOf(t), n)}

InitFilter ==
  /\ tool \in {"console", "network"}
  /\ records \in SeqsUpTo(RecordsOf(tool), MaxRecords)
  /\ include \in FilterLists(tool, MaxClauses)
  /\ exclude \in FilterLists(tool, MaxClauses - ClauseCount(include))
  /\ first \in {0, 1}
  /\ last \in {0, 1}
  /\ fpc = "input"
  /\ filtered = <<>>
  /\ output = <<>>
  /\ TrimIdle
  /\ WaitIdle

\* the part the two handlers share: filter, render, limit
Handle(t) ==
  LET stages == FilterStages(t, records, include, exclude)
      resultStrings == stringArrayApplyLimits(Rendered(t, records, stages.kept),
                                              MAX_TOTAL_TEXT_LENGTH, first, last)
  IN  /\ fpc = "input"
      /\ tool = t
      /\ IF stages.threw
           THEN fpc' = "threw" /\ filtered' = <<>> /\ output' = <<>>
           ELSE /\ fpc' = "done"
                /\ filtered' = stages.kept
                /\ output' = IF t = "network" /\ Len(resultStrings) = 0
                               THEN <<NoRequestsLine>> ELSE resultStrings
      /\ UNCHANGED <<tool, records, include, exclude, first, last, trimVars, waitVars>>

ConsoleHandle == tool = "console" /\ Handle("console")
NetworkHandle == tool = "network" /\ Handle("network")

NextFilter == ConsoleHandle \/ NetworkHandle

SpecFilter == InitFilter /\ [][NextFilter]_vars

(***************************************************************************)
(* Claims about the filters.  A record matches a clause when every         *)
(* criterion the clause carries is satisfied by the record; a status       *)
(* criterion is satisfied only by a record that has a response.            *)
(***************************************************************************)
CarriesStatuses(f) == f.statuses # Absent /\ Len(Value(f.statuses)) > 0
CarriesMalformedPattern(f) == HasPattern(f) /\ RegExpThrows(Value(f.pattern))

MatchesPattern(f, text) ==
  HasPattern(f) => (~RegExpThrows(Value(f.pattern)) /\ RegExpTest(Value(f.pattern), text))

Matches(t, f, r) ==
  IF t = "console" THEN
    /\ f.types # Absent => getConsoleMessageType(r) \in Value(f.types)
    /\ MatchesPattern(f, r.text)
  ELSE
    /\ CarriesStatuses(f) =>
         /\ r.status # NoResponse
         /\ \E i \in 1..Len(Value(f.statuses)) : InRange(r.status, Value(f.statuses)[i])
    /\ f.types # Absent => getNetworkRequestType(r.url) \in Value(f.types)
    /\ MatchesPattern(f, r.url.text)

MatchesAny(t, list, r) == \E i \in 1..Len(list) : Matches(t, list[i], r)

Finished == fpc \in {"done", "threw"}
Survivors == {filtered[k] : k \in 1..Len(filtered)}
\* the records whose line is in the output
Emitted == {filtered[output[k].pos + 1] : k \in {j \in 1..Len(output) : output[j].kind = "line"}}

\* C7: a record that matches at least one clause of a provided exclude list is
\* absent from the result of the console tool and of the network tool, whether
\* or not it matches include.
C7_ExcludePrecedence ==
  Finished =>
    \A i \in 1..Len(records) :
      (exclude # Absent /\ MatchesAny(tool, Value(exclude), records[i]))
        => (i \notin Survivors /\ i \notin Emitted)

\* a record that matches include and exclude is dropped while another survives
C7_Witness ==
  /\ fpc = "done" /\ include # Absent /\ exclude # Absent /\ filtered # <<>>
  /\ \E i \in 1..Len(records) :
       /\ MatchesAny(tool, Value(include), records[i])
       /\ MatchesAny(tool, Value(exclude), records[i])
       /\ i \notin Survivors

\* C8: whenever include is provided, the empty list included, a record is in the
\* filtered result only if it matches at least one clause of include.
C8_IncludeOnlyMatching ==
  (fpc = "done" /\ include # Absent) =>
    \A i \in Survivors : MatchesAny(tool, Value(include), records[i])

\* a provided, non-empty list whose clauses all carry a status criterion
StatusClausesOnly(list) ==
  /\ list # Absent /\ Len(Value(list)) > 0
  /\ \A i \in 1..Len(Value(list)) :
       CarriesStatuses(Value(list)[i]) /\ ~CarriesMalformedPattern(Value(list)[i])

\* C9: a network record without a response matches no clause that carries a
\* status criterion: an include list of such clauses leaves it out, and an
\* exclude list of such clauses does not drop it.
C9_NoResponseNeverMatchesStatus ==
  (fpc = "done" /\ tool = "network") =>
    \A i \in 1..Len(records) :
      records[i].status = NoResponse =>
        /\ StatusClausesOnly(include) => i \notin Survivors
        /\ (include = Absent /\ StatusClausesOnly(exclude)) => i \in Survivors

AnyMalformed(list) ==
  list # Absent /\ \E i \in 1..Len(Value(list)) : CarriesMalformedPattern(Value(list)[i])

\* C10: if a clause of include or exclude carries a malformed regular expression,
\* the query fails with an error and emits no result line, for every record
\* sequence and wherever the clause stands.
C10_MalformedPatternFails ==
  (Finished /\ (AnyMalformed(include) \/ AnyMalformed(exclude)))
    => (fpc = "threw" /\ output = <<>>)

\* C12: the network tool emits exactly the line 'No network requests found
\* matching the specified filters' if and only if no entry survives filtering;
\* when an entry survives, the output after trimming is not empty and does not
\* hold that line, for every first / last and every line length.  The console
\* tool emits nothing when no message survives.
C12_EmptyResultLine ==
  fpc = "done" =>
    /\ tool = "network" =>
         /\ (output = <<NoRequestsLine>>) <=> (filtered = <<>>)
         /\ filtered # <<>> =>
              (output # <<>> /\ \A k \in 1..Len(output) : output[k] # NoRequestsLine)
    /\ (tool = "console" /\ filtered = <<>>) => output = <<>>

\* an entry survives, first = 1 trims its line away, and a marker is what is emitted
C12_Witness ==
  /\ fpc = "done" /\ tool = "network" /\ filtered # <<>> /\ first = 1 /\ last = 0
  /\ output = <<Marker("trimmed", 1)>>

\* the entries the include stage of the handler lets through
PassedInclude ==
  LET stage == FilterStages(tool, records, include, Absent)
  IN  {stage.kept[k] : k \in 1..Len(stage.kept)}

\* C15: every record that passes the include stage and matches no clause of a
\* provided exclude list, the empty list included, is in the filtered result,
\* and the result keeps the order of the log.
C15_NonExcludedSurvive ==
  (fpc = "done" /\ exclude # Absent) =>
    /\ \A i \in PassedInclude :
         ~MatchesAny(tool, Value(exclude), records[i]) => i \in Survivors
    /\ \A k \in 1..(Len(filtered) - 1) : filtered[k] < filtered[k + 1]

(***************************************************************************)
(* waitForCompletion.  The model starts where the callback has been        *)
(* called: the three listeners are subscribed and the timeout is armed.    *)
(* Every listener, timer callback and promise continuation is one step of  *)
(* the event loop; a continuation of `await waitBarrier` runs as a         *)
(* microtask of the step that resolves the barrier.                        *)
(***************************************************************************)
Reqs == 1..MaxRequests
PageEvents == {"request", "requestfinished", "framenavigated"}
Exited == pc \in {"returned", "threw"}

InitWait ==
  /\ pc = "action"
  /\ requests = {}
  /\ frameNavigated = FALSE
  /\ barrierResolved = FALSE
  /\ listeners = PageEvents
  /\ timerPending = TRUE
  /\ timedOut = FALSE
  /\ loadPending = FALSE
  /\ loadArrived = FALSE
  /\ page \in [Reqs -> {"idle", "inflight"}]
  /\ navCount = 0
  /\ TrimIdle
  /\ FilterIdle

\* dispose(): the three page.off calls and clearTimeout(timeout)
Dispose_KeepsNavigationListener ==
  /\ listeners' = listeners \cap {"framenavigated"}
  /\ timerPending' = FALSE

Dispose ==
  /\ listeners' = {}
  /\ timerPending' = FALSE

\* waitCallback(): resolves waitBarrier; a pending `await waitBarrier` goes on
\* to tab.waitForTimeout(1000)
WaitCallback ==
  /\ barrierResolved' = TRUE
  /\ pc' = IF pc = "awaitBarrier" THEN "delay" ELSE pc

requestListener(r) ==
  requests' = requests \cup {r}

requestFinishedListener(r) ==
  /\ requests' = requests \ {r}
  /\ IF requests' = {} THEN WaitCallback ELSE UNCHANGED <<barrierResolved, pc>>

\* the listener's body for a frame without a parent frame
frameNavigateListener ==
  /\ frameNavigated' = TRUE
  /\ Dispose
  /\ loadPending' = TRUE

\* the page emits 'request'
RequestEvent(r) ==
  /\ page[r] = "idle"
  /\ page' = [page EXCEPT ![r] = "inflight"]
  /\ IF "request" \in listeners THEN requestListener(r) ELSE UNCHANGED requests
  /\ UNCHANGED <<pc, frameNavigated, barrierResolved, listeners, timerPending, timedOut,
                 loadPending, loadArrived, navCount, trimVars, filterVars>>

\* the page emits 'requestfinished'
RequestFinishedEvent(r) ==
  /\ page[r] = "inflight"
  /\ page' = [page EXCEPT ![r] = "finished"]
  /\ IF "requestfinished" \in listeners
       THEN requestFinishedListener(r)
       ELSE UNCHANGED <<requests, barrierResolved, pc>>
  /\ UNCHANGED <<frameNavigated, listeners, timerPending, timedOut,
                 loadPending, loadArrived, navCount, trimVars, filterVars>>

\* the page emits 'requestfailed', which waitForCompletion does not listen to
RequestFailedEvent(r) ==
  /\ page[r] = "inflight"
  /\ page' = [page EXCEPT ![r] = "failed"]
  /\ UNCHANGED <<pc, requests, frameNavigated, barrierResolved, listeners, timerPending,
                 timedOut, loadPending, loadArrived, navCount, trimVars, filterVars>>

\* the page emits 'framenavigated' for a top-level frame or for a child frame
FrameNavigatedEvent(topLevel) ==
  /\ navCount < MaxNavigations
  /\ navCount' = navCount + 1
  /\ IF "framenavigated" \in listeners /\ topLevel
       THEN frameNavigateListener
       ELSE UNCHANGED <<frameNavigated, listeners, timerPending, loadPending>>
  /\ UNCHANGED <<pc, requests, barrierResolved, timedOut, loadArrived, page,
                 trimVars, filterVars>>

\* tab.waitForLoadState('load') settles and its .then(waitCallback) runs
LoadStateSettles ==
  /\ loadPending
  /\ loadPending' = FALSE
  /\ loadArrived' = TRUE
  /\ WaitCallback
  /\ UNCHANGED <<requests, frameNavigated, listeners, timerPending, timedOut, page,
                 navCount, trimVars, filterVars>>

\* the 10 s timer fires
OnTimeout_NoSignal ==
  /\ timerPending
  /\ timedOut' = TRUE
  /\ Dispose
  /\ UNCHANGED <<pc, barrierResolved>>
  /\ UNCHANGED <<requests, frameNavigated, loadPending, loadArrived, page, navCount,
                 trimVars, filterVars>>

OnTimeout ==
  /\ timerPending
  /\ timedOut' = TRUE
  /\ Dispose
  /\ WaitCallback
  /\ UNCHANGED <<requests, frameNavigated, loadPending, loadArrived, page, navCount,
                 trimVars, filterVars>>

\* callback() resolves: the try block runs up to the first await that has to wait
ActionCompletes ==
  /\ pc = "action"
  /\ barrierResolved' = (barrierResolved \/ (requests = {} /\ ~frameNavigated))
  /\ pc' = IF barrierResolved' THEN "delay" ELSE "awaitBarrier"
  /\ UNCHANGED <<requests, frameNavigated, listeners, timerPending, timedOut,
                 loadPending, loadArrived, page, navCount, trimVars, filterVars>>

ActionThrows_NoFinally ==
  /\ pc = "action"
  /\ pc' = "threw"
  /\ UNCHANGED <<listeners, timerPending>>
  /\ UNCHANGED <<requests, frameNavigated, barrierResolved, timedOut,
                 loadPending, loadArrived, page, navCount, trimVars, filterVars>>

\* callback() rejects: the finally block runs and the error goes to the caller
ActionThrows ==
  /\ pc = "action"
  /\ pc' = "threw"
  /\ Dispose
  /\ UNCHANGED <<requests, frameNavigated, barrierResolved, timedOut,
                 loadPending, loadArrived, page, navCount, trimVars, filterVars>>

\* tab.waitForTimeout(1000) is over: the finally block runs and the result is returned
DelayElapses ==
  /\ pc = "delay"
  /\ pc' = "returned"
  /\ Dispose
  /\ UNCHANGED <<requests, frameNavigated, barrierResolved, timedOut,
                 loadPending, loadArrived, page, navCount, trimVars, filterVars>>

NextWait ==
  \/ \E r \in Reqs : RequestEvent(r)
  \/ \E r \in Reqs : RequestFinishedEvent(r)
  \/ \E r \in Reqs : RequestFailedEvent(r)
  \/ \E topLevel \in BOOLEAN : FrameNavigatedEvent(topLevel)
  \/ LoadStateSettles
  \/ OnTimeout
  \/ ActionCompletes
  \/ ActionThrows
  \/ DelayElapses

SpecWait == InitWait /\ [][NextWait]_vars

\* Timers that are pending fire, and the load wait of the tab settles (with the
\* load event or with its own timeout).
TimersFire == WF_vars(OnTimeout) /\ WF_vars(DelayElapses)
LoadStateEventuallySettles == WF_vars(LoadStateSettles)

FairSpecWait == SpecWait /\ TimersFire /\ LoadStateEventuallySettles

(***************************************************************************)
(* Claims about waitForCompletion.                                         *)
(***************************************************************************)
StartsFinalDelay == pc # "delay" /\ pc' = "delay"

\* C3: when the action has completed, no top-level navigation was observed and
\* the timeout has not fired, the function does not start its final delay while
\* the set of in-flight requests is non-empty.
C3_WaitsForRequests ==
  [][(StartsFinalDelay /\ ~frameNavigated' /\ ~timedOut') => requests' = {}]_vars

\* C4: when a top-level navigation has been observed, the function does not go on
\* to its final delay before the load-completion signal of that navigation has
\* arrived, whatever request events came before the navigation.
C4_WaitsForLoad ==
  [][(StartsFinalDelay /\ frameNavigated') => loadArrived']_vars

C6_ReleasedOnExit ==
  [][/\ (Exited' => (listeners' = {} /\ ~timerPending'))
     /\ listeners' \subseteq listeners
     /\ (~timerPending => ~timerPending')]_vars

\* the exit paths: after the timeout, after a navigation, by the action's error
C6_Witness ==
  \/ pc = "returned" /\ timedOut /\ listeners = {} /\ ~timerPending
  \/ pc = "returned" /\ frameNavigated /\ listeners = {} /\ ~timerPending

\* C11: when the action raises an error, waitForCompletion raises it to its
\* caller straight from the call of the action, without waiting for the barrier
\* and without the final delay, with the listeners and the timer released; the
\* error is never replaced by a normal return, whatever events came before.
C11_ErrorPropagates ==
  [][/\ (pc' = "threw" => /\ pc \in {"action", "threw"}
                          /\ listeners' = {}
                          /\ ~timerPending')
     /\ (pc = "threw" => pc' = "threw")]_vars

\* the action failed with a request in flight, and later events changed nothing
C11_Witness ==
  /\ pc = "threw" /\ requests # {} /\ ~barrierResolved
  /\ \E r \in requests : page[r] = "finished"

====
